---------------------------- MODULE Spec2Model ----------------------------
(***************************************************************************)
(* Hyper-Goliath: Beal-conjecture search engine.                           *)
(*                                                                         *)
(* The module models the modular-arithmetic primitives, the residue        *)
(* precomputer, the scalar and the 8-lane sieve, the exact verifier, the   *)
(* parallel search driver (search_parallel), the JSONL logger and main().  *)
(***************************************************************************)
EXTENDS Integers, Sequences, FiniteSets, TLC

(***************************************************************************)
(* Program constants.                                                      *)
(***************************************************************************)
NUM_SIEVE_PRIMES == 20

SIEVE_PRIMES ==
  <<2, 3, 5, 7, 11, 13, 17, 19, 23, 29, 31, 37, 41, 43, 47, 53, 59, 61, 67, 71>>

PrimeIdx == 1..NUM_SIEVE_PRIMES

(***************************************************************************)
(* Bounds of the model.                                                    *)
(***************************************************************************)
\* largest A in a search range
MaxA == 2
\* largest B in a search range (more than one block of 8 lanes)
MaxB == 10
\* largest exponent of a signature handed to the sieve
MaxExp == 4
\* largest exponent handed to compute_residue_mask128
MaxMaskExp == 5
\* largest base and largest exponent handed to check_beal_hit_gmp
MaxBase == 3
MaxVerifyExp == 7
\* largest C of a known tuple A^x + B^y = C^z
MaxC == 101
\* largest worker count of the parallel region
MaxThreads == 2
\* capacity of the worker-local hit buffer (local_hits[64] in the source)
LocalHitCap == 2
\* last reading of the wall clock, in seconds after the start of the run
\* (long enough for two progress reports more than a second apart)
MaxClock == 4
\* arguments of gcd64 called directly: 0..MaxGcdArg
MaxGcdArg == 40
\* arguments of powmod called directly: base in 0..MaxPowBase, exp in
\* 0..MaxPowExp, m a sieve prime, 1000 or in 2..MaxMod
MaxPowBase == 12
MaxPowExp == 10
MaxMod == 12

(***************************************************************************)
(* Small helpers on naturals (C operators on unsigned integers).           *)
(***************************************************************************)
Min(a, b) == IF a <= b THEN a ELSE b

\* 1 << n
Pow2(n) == 2 ^ n

\* n >> k
Shr(n, k) == n \div Pow2(k)

\* n << k
Shl(n, k) == n * Pow2(k)

\* bit k of n, as 0 or 1
BitAt(n, k) == (n \div Pow2(k)) % 2

\* a | b
RECURSIVE BitOr(_, _)
BitOr(a, b) ==
  IF a = 0 THEN b
  ELSE IF b = 0 THEN a
  ELSE (IF (a % 2 = 1) \/ (b % 2 = 1) THEN 1 ELSE 0)
       + 2 * BitOr(a \div 2, b \div 2)

\* a ^ b (exclusive or)
RECURSIVE BitXor(_, _)
BitXor(a, b) ==
  IF a = 0 THEN b
  ELSE IF b = 0 THEN a
  ELSE (IF (a % 2) # (b % 2) THEN 1 ELSE 0)
       + 2 * BitXor(a \div 2, b \div 2)

\* __builtin_ctzll(n) for n # 0
RECURSIVE ctzll(_)
ctzll(n) == IF n % 2 = 1 THEN 0 ELSE 1 + ctzll(n \div 2)

(***************************************************************************)
(* gcd64: binary GCD.                                                      *)
(***************************************************************************)
RECURSIVE gcd64_loop(_, _)
gcd64_loop(a, b) ==
  LET b1 == Shr(b, ctzll(b))
      lo == IF a > b1 THEN b1 ELSE a
      hi == IF a > b1 THEN a ELSE b1
      b2 == hi - lo
  IN  IF b2 = 0 THEN lo
      ELSE CHOOSE g \in {gcd64_loop(n[1], n[2]) : n \in {<<lo, b2>>}} : TRUE

\* the number of rounds of the do-while loop
RECURSIVE gcd64_rounds(_, _)
gcd64_rounds(a, b) ==
  LET b1 == Shr(b, ctzll(b))
      lo == IF a > b1 THEN b1 ELSE a
      hi == IF a > b1 THEN a ELSE b1
      b2 == hi - lo
  IN  IF b2 = 0 THEN 1
      ELSE CHOOSE g \in {1 + gcd64_rounds(n[1], n[2]) : n \in {<<lo, b2>>}} : TRUE

\* gcd64 returning a without the shift back
gcd64_no_shift_back(a, b) ==
  IF a = 0 THEN b
  ELSE IF b = 0 THEN a
  ELSE gcd64_loop(Shr(a, ctzll(a)), b)

gcd64(a, b) ==
  IF a = 0 THEN b
  ELSE IF b = 0 THEN a
  ELSE LET shift == ctzll(BitOr(a, b))
           a1    == Shr(a, ctzll(a))
       IN  Shl(gcd64_loop(a1, b), shift)

(***************************************************************************)
(* powmod: binary modular exponentiation.                                  *)
(***************************************************************************)
RECURSIVE powmod_loop(_, _, _, _)
powmod_loop(result, base, exp, m) ==
  IF exp = 0 THEN result
  ELSE CHOOSE r \in {powmod_loop(n[1], n[2], exp \div 2, m) :
                       n \in {<<IF exp % 2 = 1 THEN (result * base) % m ELSE result,
                                (base * base) % m>>}} : TRUE

\* the products the loop forms before reducing them mod m
RECURSIVE powmod_products(_, _, _, _)
powmod_products(result, base, exp, m) ==
  IF exp = 0 THEN {}
  ELSE (IF exp % 2 = 1 THEN {result * base} ELSE {}) \cup {base * base} \cup
       powmod_products(IF exp % 2 = 1 THEN (result * base) % m ELSE result,
                       (base * base) % m, exp \div 2, m)

\* powmod with result starting at base instead of 1
powmod_result_from_base(base, exp, m) == powmod_loop(base % m, base % m, exp, m)

powmod(base, exp, m) == powmod_loop(1, base % m, exp, m)

(***************************************************************************)
(* 128-bit masks: two 64-bit words, each held as the set of its set bits.  *)
(***************************************************************************)
EmptyMask == <<{}, {}>>

get_bit128(mask, bit) ==
  IF bit < 64 THEN bit \in mask[1] ELSE (bit - 64) \in mask[2]

\* set_bit128 shifting in the low word whatever the bit
set_bit128_low_word(mask, bit) == <<mask[1] \cup {bit % 64}, mask[2]>>

set_bit128(mask, bit) ==
  IF bit < 64 THEN <<mask[1] \cup {bit}, mask[2]>>
  ELSE <<mask[1], mask[2] \cup {bit - 64}>>

(***************************************************************************)
(* Residue precomputer.                                                    *)
(***************************************************************************)
\* for (r = 0; r < p; r++) set_bit128(mask, powmod(r, z, p)): the mask is
\* the bitwise OR, over r, of the single bit each round sets
compute_residue_mask128(p, z) ==
  LET one(r) == set_bit128(EmptyMask, powmod(r, z, p))
  IN  <<UNION {one(r)[1] : r \in 0..(p - 1)},
        UNION {one(r)[2] : r \in 0..(p - 1)}>>

\* (uint8_t) v
U8(v) == v % 256

\* The handle precompute_create returns when every allocation succeeds.
precompute_tables(x, y, z, A_max, B_max) ==
  [x |-> x, y |-> y, z |-> z, A_max |-> A_max, B_max |-> B_max,
   residue_masks |->
     [i \in PrimeIdx |-> compute_residue_mask128(SIEVE_PRIMES[i], z)],
   ax_mod |->
     [A \in 0..A_max |-> [i \in PrimeIdx |-> U8(powmod(A, x, SIEVE_PRIMES[i]))]],
   by_mod |->
     [i \in PrimeIdx |-> [B \in 0..B_max |-> U8(powmod(B, y, SIEVE_PRIMES[i]))]]]

NULL == [null |-> TRUE]

\* The allocations precompute_create checks: the handle, the ax_mod row
\* array, the by_mod row array.  alloc names the one that fails, or "none".
AllocPoints == {"none", "data", "ax_mod", "by_mod"}

precompute_create(x, y, z, A_max, B_max, alloc) ==
  IF alloc = "none" THEN precompute_tables(x, y, z, A_max, B_max) ELSE NULL

(***************************************************************************)
(* precompute_create and precompute_free on the heap.  A block is named by *)
(* what the code stores it in: the handle, the two row-pointer arrays, the *)
(* rows ax_mod[A] and by_mod[i].                                           *)
(***************************************************************************)
NoFailure == <<"none", 0>>

AxRows(A_max) == {<<"ax_row", A>> : A \in 0..A_max}

ByRows == {<<"by_row", i - 1>> : i \in PrimeIdx}

\* every malloc of precompute_create
Mallocs(A_max) ==
  {<<"data", 0>>, <<"ax_mod", 0>>, <<"by_mod", 0>>} \cup AxRows(A_max) \cup ByRows

\* What a store through a row pointer that is NULL can do: the process is
\* killed, or the store goes through and the function carries on.
NullStoreOutcomes == {"killed", "carries_on"}

\* precompute_create when the malloc of block fail returns NULL (NoFailure:
\* none does), the store through a NULL row ending as ub says.  ret is what
\* the caller gets, live the blocks allocated and not freed, null_rows the
\* rows of the returned handle that are NULL.
precompute_create_heap(A_max, fail, ub) ==
  LET all == Mallocs(A_max)
  IN  IF fail = <<"data", 0>>
      THEN [ret |-> "NULL", live |-> {}, null_rows |-> {}]
      ELSE IF fail = <<"ax_mod", 0>>
      THEN [ret |-> "NULL", live |-> {}, null_rows |-> {}]            \* free(data)
      ELSE IF fail \in AxRows(A_max)
      THEN IF ub = "killed"
           THEN [ret |-> "killed",
                 live |-> {<<"data", 0>>, <<"ax_mod", 0>>} \cup
                          {r \in AxRows(A_max) : r[2] < fail[2]},
                 null_rows |-> {}]
           ELSE [ret |-> "handle", live |-> all \ {fail}, null_rows |-> {fail}]
      ELSE IF fail = <<"by_mod", 0>>
      THEN [ret |-> "NULL",                                           \* no free
            live |-> {<<"data", 0>>, <<"ax_mod", 0>>} \cup AxRows(A_max),
            null_rows |-> {}]
      ELSE IF fail \in ByRows
      THEN IF ub = "killed"
           THEN [ret |-> "killed",
                 live |-> {<<"data", 0>>, <<"ax_mod", 0>>, <<"by_mod", 0>>} \cup
                          AxRows(A_max) \cup {r \in ByRows : r[2] < fail[2]},
                 null_rows |-> {}]
           ELSE [ret |-> "handle", live |-> all \ {fail}, null_rows |-> {fail}]
      ELSE [ret |-> "handle", live |-> all, null_rows |-> {}]

\* precompute_free(data): nothing for NULL; else every row, both row arrays
\* and the handle (free(NULL) does nothing)
precompute_free(h) ==
  IF h.ret = "handle" THEN [h EXCEPT !.live = {}, !.ret = "freed"] ELSE h

(***************************************************************************)
(* Sieve filter: scalar path.                                              *)
(***************************************************************************)
\* the reduction with > in place of >=
AddMod_strict(a, b, p) == LET sum == a + b IN IF sum > p THEN sum - p ELSE sum

\* (a + b) mod p for a, b < p, without a division
AddMod(a, b, p) == LET sum == a + b IN IF sum >= p THEN sum - p ELSE sum

\* the bit looked up at the plain sum, without the conditional subtraction
prime_admits_unreduced(i, A, B, d) ==
  get_bit128(d.residue_masks[i], d.ax_mod[A][i] + d.by_mod[i][B])

\* whether prime index i admits (A, B)
prime_admits(i, A, B, d) ==
  get_bit128(d.residue_masks[i],
             AddMod(d.ax_mod[A][i], d.by_mod[i][B], SIEVE_PRIMES[i]))

\* false at the first prime that rules the pair out, true when none does
sieve_survives_scalar(A, B, d) ==
  \A i \in PrimeIdx : prime_admits(i, A, B, d)

(***************************************************************************)
(* Sieve filter: 8-lane path.  survivors is a uint8_t, bit l for lane l.   *)
(***************************************************************************)
\* survivors & ~(1 << l)
ClearLane(survivors, l) ==
  IF BitAt(survivors, l) = 1 THEN survivors - Pow2(l) ELSE survivors

\* The inner loop over the lanes l..7 for prime index i.
RECURSIVE avx_lanes(_, _, _, _, _)

\* the inner loop with the lane of B_max itself taken as out of range
avx_lanes_short(l, i, survivors, A_B, d) ==
  IF l >= 8 THEN survivors
  ELSE IF BitAt(survivors, l) = 0 THEN avx_lanes(l + 1, i, survivors, A_B, d)
  ELSE LET B == A_B[2] + l
       IN  IF B >= d.B_max
           THEN avx_lanes(l + 1, i, ClearLane(survivors, l), A_B, d)
           ELSE LET p   == SIEVE_PRIMES[i]
                    sum == AddMod(d.ax_mod[A_B[1]][i], d.by_mod[i][B], p)
                IN  IF ~get_bit128(d.residue_masks[i], sum)
                    THEN avx_lanes(l + 1, i, ClearLane(survivors, l), A_B, d)
                    ELSE avx_lanes(l + 1, i, survivors, A_B, d)

avx_lanes(l, i, survivors, A_B, d) ==
  IF l >= 8 THEN survivors
  ELSE CHOOSE r \in
         {avx_lanes(l + 1, i, sv, A_B, d) :
            sv \in {IF BitAt(survivors, l) = 0 THEN survivors
                    ELSE LET B == A_B[2] + l
                         IN  IF B > d.B_max THEN ClearLane(survivors, l)
                             ELSE LET p   == SIEVE_PRIMES[i]
                                      sum == AddMod(d.ax_mod[A_B[1]][i],
                                                    d.by_mod[i][B], p)
                                  IN  IF ~get_bit128(d.residue_masks[i], sum)
                                      THEN ClearLane(survivors, l)
                                      ELSE survivors}} : TRUE

\* The outer loop over the prime indices lo..hi in order (split in halves to
\* keep the evaluation shallow), left as soon as no lane survives.
RECURSIVE avx_primes(_, _, _, _, _)
avx_primes(lo, hi, survivors, A_B, d) ==
  IF survivors = 0 THEN 0
  ELSE IF lo = hi THEN avx_lanes(0, lo, survivors, A_B, d)
  ELSE CHOOSE r \in
         UNION {{IF s = 0 THEN 0 ELSE avx_primes(mid + 1, hi, s, A_B, d) :
                   s \in {avx_primes(lo, mid, survivors, A_B, d)}} :
                mid \in {(lo + hi) \div 2}} : TRUE

sieve_survives_avx2_8(A, B_start, d) ==
  avx_primes(1, NUM_SIEVE_PRIMES, 255, <<A, B_start>>, d)

(***************************************************************************)
(* Exact verifier.  GMP integers are unbounded; the model keeps its inputs *)
(* small enough that no value leaves TLC's integers.                       *)
(***************************************************************************)
\* mpz_ui_pow_ui
RECURSIVE mpz_ui_pow_ui(_, _)
mpz_ui_pow_ui(b, e) == IF e = 0 THEN 1 ELSE b * mpz_ui_pow_ui(b, e - 1)

\* b^e when it is at most cap, and cap + 1 otherwise
RECURSIVE PowCap(_, _, _)
PowCap(b, e, cap) ==
  IF e = 0 THEN Min(1, cap + 1)
  ELSE CHOOSE r \in {IF b = 0 THEN 0
                       ELSE IF q > cap \div b THEN cap + 1 ELSE b * q :
                       q \in {PowCap(b, e - 1, cap)}} : TRUE

\* the largest r in lo..hi with r^z <= n, by bisection (lo^z <= n holds)
RECURSIVE root_bisect(_, _, _, _)
root_bisect(lo, hi, n, z) ==
  IF lo >= hi THEN lo
  ELSE CHOOSE r \in {IF PowCap(mid, z, n) <= n THEN root_bisect(mid, hi, n, z)
                       ELSE root_bisect(lo, mid - 1, n, z) :
                       mid \in {(lo + hi + 1) \div 2}} : TRUE

\* mpz_root(root, n, z): the truncated z-th root and whether it is exact
mpz_root(n, z) ==
  CHOOSE rt \in {[root |-> r, exact |-> (PowCap(r, z, n) = n)] :
                   r \in {root_bisect(0, n, n, z)}} : TRUE

\* the verifier without the test of C against C_max
check_beal_hit_gmp_no_cmax(A, B, xyz, C_max) ==
  CHOOSE res \in
    {IF rt.exact /\ rt.root > 0
     THEN [hit |-> TRUE, C |-> rt.root, gcd |-> gcd64(A, gcd64(B, rt.root))]
     ELSE [hit |-> FALSE, C |-> 0, gcd |-> 0] :
     rt \in {mpz_root(sum, xyz[3]) :
               sum \in {mpz_ui_pow_ui(A, xyz[1]) + mpz_ui_pow_ui(B, xyz[2])}}} :
    TRUE

\* The result of check_beal_hit_gmp: hit, and *out_C, *out_gcd when hit
\* (they are left unwritten otherwise: C and gcd are 0 here and never read).
check_beal_hit_gmp(A, B, xyz, C_max) ==
  LET ax  == mpz_ui_pow_ui(A, xyz[1])
      by  == mpz_ui_pow_ui(B, xyz[2])
  IN  CHOOSE res \in
        {LET C == rt.root
         IN  IF rt.exact /\ C <= C_max /\ C > 0
             THEN [hit |-> TRUE, C |-> C, gcd |-> gcd64(A, gcd64(B, C))]
             ELSE [hit |-> FALSE, C |-> 0, gcd |-> 0] :
         rt \in {mpz_root(sum, xyz[3]) : sum \in {ax + by}}} : TRUE

(***************************************************************************)
(* Integrity digest of log_complete: 64-bit FNV-1a.  A 64-bit word is held *)
(* as four 16-bit limbs, least significant first.                          *)
(***************************************************************************)
Limb == 65536

\* FNV offset basis 14695981039346656037 = 0xCBF29CE484222325
FNV_OFFSET == <<8997, 33826, 40164, 52210>>

\* FNV prime 1099511628211 = 2^40 + 0x1B3
FNV_PRIME_LOW == 435

\* hash ^= v, for a field v below 2^32
fnv_xor(h, v) ==
  <<BitXor(h[1], v % Limb), BitXor(h[2], (v \div Limb) % Limb), h[3], h[4]>>

\* hash *= FNV_PRIME, modulo 2^64
fnv_mul(h) ==
  LET t1 == h[1] * FNV_PRIME_LOW
      t2 == h[2] * FNV_PRIME_LOW + (t1 \div Limb)
      t3 == h[3] * FNV_PRIME_LOW + (t2 \div Limb) + (h[1] % 256) * 256
      t4 == h[4] * FNV_PRIME_LOW + (t3 \div Limb)
              + (h[2] % 256) * 256 + (h[1] \div 256)
  IN  <<t1 % Limb, t2 % Limb, t3 % Limb, t4 % Limb>>

RECURSIVE fnv_absorb(_, _, _)
fnv_absorb(h, fields, k) ==
  IF k > Len(fields) THEN h
  ELSE CHOOSE r \in {fnv_absorb(n, fields, k + 1) :
                       n \in {fnv_mul(fnv_xor(h, fields[k]))}} : TRUE

\* the fields log_complete absorbs, in its order
integrity_fields(params, results) ==
  <<params.x, params.y, params.z, params.A_start, params.A_max,
    params.B_start, params.B_max, params.C_max,
    results.total_pairs, results.gcd_filtered, results.mod_filtered,
    results.exact_checks, results.power_hits, results.primitive_hits>>

integrity_hash(params, results) ==
  fnv_absorb(FNV_OFFSET, integrity_fields(params, results), 1)

\* the status string of the COMPLETE record
complete_status(primitive_hits) ==
  IF primitive_hits > 0 THEN "COUNTEREXAMPLE_FOUND" ELSE "CLEAR"

(***************************************************************************)
(* State.                                                                  *)
(***************************************************************************)
VARIABLES
  params,            \* SearchParams
  build,             \* compile-time switches: _OPENMP, HAVE_AVX2
  alloc,             \* environment: the allocation of precompute_create that fails
  log_ok,            \* environment: whether fopen of the log path succeeds
  mpc,               \* position of the main thread
  exit_code,         \* return value of main (-1 until it returns)
  data,              \* PrecomputedData handle of search_parallel
  num_threads,       \* search_parallel: worker count in use
  run_id,            \* search_parallel: run_id
  next_A,            \* omp for schedule(dynamic, 1): next A to hand out
  wk,                \* per worker: position and locals
  glob,              \* the four _Atomic counters
  results,           \* SearchResults
  log,               \* the JSONL file: sequence of records
  announced,         \* COUNTEREXAMPLE notices printed to stdout
  clock,             \* wall clock, in seconds
  start_time,        \* search_parallel: start_time
  last_report_time,  \* search_parallel: last_report_time
  report_owner,      \* holder of omp critical(report), 0 when free
  hit_owner,         \* holder of the unnamed omp critical, 0 when free
  pairs,             \* history: per pair, how the pipeline treated it
  unit               \* the entry point exercised; for a library call, its arguments and result

vars == <<params, build, alloc, log_ok, mpc, exit_code, data, num_threads,
          run_id, next_A, wk, glob, results, log, announced, clock,
          start_time, last_report_time, report_owner, hit_owner, pairs,
          unit>>

Workers == 1..MaxThreads

NoHit == [hit |-> FALSE, C |-> 0, gcd |-> 0]

IdleWorker ==
  [pc |-> "off", A |-> 0, B |-> 0, lane |-> 0,
   a_tested |-> 0, a_gcd |-> 0, a_mod |-> 0, a_exact |-> 0,
   local_hits |-> <<>>, pending |-> NoHit, now |-> 0, tested |-> 0]

ZeroCounters == [tested |-> 0, gcd_skips |-> 0, mod_skips |-> 0, exact_checks |-> 0]

\* results_init: memset 0 and an empty hit list
results_init ==
  [total_pairs |-> 0, gcd_filtered |-> 0, mod_filtered |-> 0, exact_checks |-> 0,
   power_hits |-> 0, primitive_hits |-> 0, hits |-> <<>>]

PairDom == (0..MaxA) \X (0..MaxB)

ZeroPair == [tested |-> 0, gcd |-> 0, mod |-> 0, exact |-> 0, verify |-> 0]

\* the entry point a behaviour exercises
Entry(fn) == [fn |-> fn]

\* uint64_t expected_pairs = (A_max - A_start + 1) * (B_max - B_start + 1)
expected_pairs(p) == (p.A_max - p.A_start + 1) * (p.B_max - p.B_start + 1)

(***************************************************************************)
(* Logger.  Each call opens the file, writes one record and closes it; a   *)
(* failed fopen writes nothing.  log_start opens with "w".                 *)
(***************************************************************************)
log_start(lg, p, num_workers, ok, now) ==
  IF ~ok THEN lg
  ELSE <<[event |-> "START", run_id |-> now, signature |-> <<p.x, p.y, p.z>>,
          Astart |-> p.A_start, Amax |-> p.A_max, Bstart |-> p.B_start,
          Bmax |-> p.B_max, Cmax |-> p.C_max,
          expected_pairs |-> expected_pairs(p), cpu_count |-> num_workers]>>

log_checkpoint(lg, rid, counts, elapsed, chunks, ok) ==
  IF ~ok THEN lg
  ELSE Append(lg,
         [event |-> "CHECKPOINT", run_id |-> rid,
          pairs_completed |-> counts[1], pairs_expected |-> counts[2],
          gcd_skips |-> counts[3], mod_skips |-> counts[4],
          exact_checks |-> IF counts[1] > counts[3] + counts[4]
                           THEN counts[1] - counts[3] - counts[4] ELSE 0,
          elapsed_seconds |-> elapsed,
          chunks_done |-> chunks[1], chunks_total |-> chunks[2]])

hit_record(h) ==
  [event |-> "POWER_HIT", A |-> h.A, B |-> h.B, C |-> h.C,
   gcd |-> h.gcd, x |-> h.x, y |-> h.y, z |-> h.z]

log_hit(lg, h, ok) == IF ~ok THEN lg ELSE Append(lg, hit_record(h))

\* log_complete opening the file with "w" as log_start does
log_complete_truncating(lg, rid, p, res, ok) ==
  IF ~ok THEN lg
  ELSE <<[event |-> "COMPLETE", run_id |-> rid, signature |-> <<p.x, p.y, p.z>>,
          total_pairs |-> res.total_pairs, gcd_filtered |-> res.gcd_filtered,
          mod_filtered |-> res.mod_filtered, exact_checks |-> res.exact_checks,
          power_hits |-> res.power_hits,
          primitive_counterexamples |-> res.primitive_hits,
          workers_used |-> IF p.num_threads > 0 THEN p.num_threads ELSE 1,
          status |-> complete_status(res.primitive_hits),
          integrity_hash |-> integrity_hash(p, res)]>>

log_complete(lg, rid, p, res, ok) ==
  IF ~ok THEN lg
  ELSE Append(lg,
         [event |-> "COMPLETE", run_id |-> rid, signature |-> <<p.x, p.y, p.z>>,
          total_pairs |-> res.total_pairs, gcd_filtered |-> res.gcd_filtered,
          mod_filtered |-> res.mod_filtered, exact_checks |-> res.exact_checks,
          power_hits |-> res.power_hits,
          primitive_counterexamples |-> res.primitive_hits,
          workers_used |-> IF p.num_threads > 0 THEN p.num_threads ELSE 1,
          status |-> complete_status(res.primitive_hits),
          integrity_hash |-> integrity_hash(p, res)])

\* a dump that leaves out results_add_hit when the log cannot be opened
flush_hits_logged_only(hits, lg, buf, ok) ==
  IF ok THEN <<hits \o buf, lg \o [k \in 1..Len(buf) |-> hit_record(buf[k])]>>
  ELSE <<hits, lg>>

\* results_add_hit and log_hit for each buffered hit, in buffer order
flush_hits(hits, lg, buf, ok) ==
  <<hits \o buf,
    IF ok THEN lg \o [k \in 1..Len(buf) |-> hit_record(buf[k])] ELSE lg>>

(***************************************************************************)
(* search_parallel: the per-pair pipeline.  A worker's walk over the B row *)
(* of its A touches only its own locals until the verifier reports a hit,  *)
(* so the walk up to the next hit (or the end of the row) is one step.     *)
(***************************************************************************)
\* the scalar classification without the gcd skip
pair_class_scalar_no_gcd_skip(A, B, d) ==
  IF ~sieve_survives_scalar(A, B, d) THEN "mod" ELSE "exact"

\* gcd skip, then sieve (scalar path)
pair_class_scalar(A, B, d) ==
  IF gcd64(A, B) > 1 THEN "gcd"
  ELSE IF ~sieve_survives_scalar(A, B, d) THEN "mod"
  ELSE "exact"

\* the 8-lane classification with the survivor mask consulted before the gcd
pair_class_avx_sieve_first(A, B_val, survivors, lane) ==
  IF BitAt(survivors, lane) = 0 THEN "mod"
  ELSE IF gcd64(A, B_val) > 1 THEN "gcd"
  ELSE "exact"

\* gcd skip, then the lane's bit of the survivor mask (8-lane path)
pair_class_avx(A, B_val, survivors, lane) ==
  IF gcd64(A, B_val) > 1 THEN "gcd"
  ELSE IF BitAt(survivors, lane) = 0 THEN "mod"
  ELSE "exact"

verify_pair(k, A, B_val, p) ==
  IF k = "exact" THEN check_beal_hit_gmp(A, B_val, <<p.x, p.y, p.z>>, p.C_max)
  ELSE NoHit

\* the loop nest over B without its last, partial block of lanes
row_iterations_full_blocks(p, avx2) ==
  IF avx2
  THEN {<<B, lane>> : B \in {b \in p.B_start..p.B_max : (b - p.B_start) % 8 = 0},
                      lane \in 0..7} \cap
       {it \in (0..p.B_max) \X (0..7) : it[1] + 7 <= p.B_max}
  ELSE {<<B, 0>> : B \in p.B_start..p.B_max}

\* The iterations of the loop nest over B, each <<B, lane>>.
\* Scalar path: for (B = B_start; B <= B_max; B++), lane is 0.
\* 8-lane path: for (B = B_start; B <= B_max; B += 8)
\*                for (lane = 0; lane < 8 && B + lane <= B_max; lane++)
row_iterations(p, avx2) ==
  IF avx2
  THEN {<<B, lane>> : B \in {b \in p.B_start..p.B_max : (b - p.B_start) % 8 = 0},
                      lane \in 0..7} \cap
       {it \in (0..p.B_max) \X (0..7) : it[1] + it[2] <= p.B_max}
  ELSE {<<B, 0>> : B \in p.B_start..p.B_max}

\* loop order
it_before(i1, i2) == i1[1] < i2[1] \/ (i1[1] = i2[1] /\ i1[2] < i2[2])

it_at_or_after(i1, cur) == ~it_before(i1, cur)

\* One iteration of the loop nest for row A: the pair <<A, B_val>>, its
\* class and the verifier's answer.  survivors is the block's lane mask.
pair_step(A, it, survivors, p, d, avx2) ==
  LET B_val == it[1] + it[2]
  IN  CHOOSE st \in
        {[it |-> it, B_val |-> B_val, cls |-> k, res |-> verify_pair(k, A, B_val, p)] :
           k \in {IF avx2 THEN pair_class_avx(A, B_val, survivors, it[2])
                  ELSE pair_class_scalar(A, B_val, d)}} : TRUE

\* The iterations left in the row of worker record w, each with its pair,
\* class and verifier's answer, whether or not the walk gets that far.
row_steps(w, p, d, avx2) ==
  LET rest   == {it \in row_iterations(p, avx2) : it_at_or_after(it, <<w.B, w.lane>>)}
      blocks == {<<B, IF avx2 THEN sieve_survives_avx2_8(w.A, B, d) ELSE 0>> :
                   B \in {it[1] : it \in rest}}
  IN  UNION {{pair_step(w.A, it, blk[2], p, d, avx2) :
                it \in {i \in rest : i[1] = blk[1]}} : blk \in blocks}

\* The walk over the iterations steps, as far as the first verified hit.
walked(steps) ==
  LET hitsAt == {s \in steps : s.res.hit}
      first  == CHOOSE s \in hitsAt : \A o \in hitsAt : ~it_before(o.it, s.it)
  IN  [hit   |-> hitsAt # {},
       first |-> IF hitsAt = {} THEN [it |-> <<0, 0>>, res |-> NoHit]
                 ELSE [it |-> first.it, res |-> first.res],
       run   |-> IF hitsAt = {} THEN steps
                 ELSE {s \in steps : ~it_before(first.it, s.it)}]

\* The cursor, counters, hit and history after the walk wd of row A.
row_account(w, hist, p, avx2, wd) ==
  LET A      == w.A
      hitsAt == IF wd.hit THEN {wd.first} ELSE {}
      first  == wd.first
      run    == wd.run
      n(k)   == Cardinality({s \in run : s.cls = k})
      at(B)  == {s \in run : s.B_val = B}
      nb(B, k) == Cardinality({s \in at(B) : s.cls = k})
  IN  [B        |-> IF hitsAt = {} THEN p.B_max + 1
                    ELSE IF avx2 THEN first.it[1] ELSE first.it[1] + 1,
       lane     |-> IF hitsAt = {} \/ ~avx2 THEN 0 ELSE first.it[2] + 1,
       a_tested |-> w.a_tested + Cardinality(run),
       a_gcd    |-> w.a_gcd + n("gcd"),
       a_mod    |-> w.a_mod + n("mod"),
       a_exact  |-> w.a_exact + n("exact"),
       pending  |-> IF hitsAt = {} THEN NoHit ELSE first.res,
       hist     |-> [pr \in PairDom |->
                       IF pr[1] # A \/ at(pr[2]) = {} THEN hist[pr]
                       ELSE [tested |-> hist[pr].tested + Cardinality(at(pr[2])),
                             gcd    |-> hist[pr].gcd + nb(pr[2], "gcd"),
                             mod    |-> hist[pr].mod + nb(pr[2], "mod"),
                             exact  |-> hist[pr].exact + nb(pr[2], "exact"),
                             verify |-> hist[pr].verify + nb(pr[2], "exact")]]]

\* The walk of worker record w over its row, from where it stands to the
\* next verified hit or the end of the row: the new cursor and counters,
\* the hit, the history.
scan_row(w, hist, p, d, avx2) ==
  CHOOSE acc \in {row_account(w, hist, p, avx2, wd) :
                    wd \in {walked(steps) : steps \in {row_steps(w, p, d, avx2)}}} : TRUE

BealHit(A, B, res, p) ==
  [A |-> A, B |-> B, C |-> res.C, gcd |-> res.gcd, x |-> p.x, y |-> p.y, z |-> p.z]

\* the pair the walk verified last (the cursor has moved past it)
last_B(w, avx2) == IF avx2 THEN w.B + w.lane - 1 ELSE w.B - 1

Active == 1..num_threads

(***************************************************************************)
(* search_parallel: the main thread before the parallel region.            *)
(***************************************************************************)
envvars == <<params, build, alloc, log_ok>>

\* search_parallel going on whatever precompute_create returned
after_precompute_unchecked(d) == "precomputed"

\* if (!data) { ...; return; }
after_precompute(d) == IF d = NULL THEN "returned" ELSE "precomputed"

\* results_init, the thread count, precompute_create; return on failure
Precompute ==
  /\ mpc = "search_entry"
  /\ results' = results_init
  /\ \E n \in 1..MaxThreads :
       /\ IF ~build.openmp THEN n = 1
          ELSE IF params.num_threads <= 0 THEN TRUE  \* omp_get_max_threads()
          ELSE n = params.num_threads
       /\ num_threads' = n
  /\ data' = precompute_create(params.x, params.y, params.z,
                               params.A_max, params.B_max, alloc)
  /\ mpc' = after_precompute(data')
  /\ UNCHANGED <<envvars, exit_code, run_id, next_A, wk, glob, log, announced,
                 clock, start_time, last_report_time, report_owner, hit_owner, pairs, unit>>

\* The wall clock as a reader finds it: the last reading or any later time.
Readings == clock..MaxClock

\* uint64_t run_id = (uint64_t)time(NULL); the clock counts from this sample
SampleRunId ==
  /\ mpc = "precomputed"
  /\ run_id' = clock
  /\ mpc' = "log_start"
  /\ UNCHANGED <<envvars, exit_code, data, num_threads, next_A, wk, glob,
                 results, log, announced, clock, start_time, last_report_time,
                 report_owner, hit_owner, pairs, unit>>

\* log_start, the timers, the atomics; the parallel region opens
StartParallel ==
  /\ mpc = "log_start"
  /\ \E t \in Readings :
       /\ clock' = t
       /\ log' = log_start(log, params, num_threads, log_ok, t)
       /\ start_time' = t
       /\ last_report_time' = t
  /\ glob' = ZeroCounters
  /\ next_A' = params.A_start
  /\ wk' = [w \in Workers |->
              IF w \in Active THEN [IdleWorker EXCEPT !.pc = "loop"] ELSE IdleWorker]
  /\ mpc' = "parallel"
  /\ UNCHANGED <<envvars, exit_code, data, num_threads, run_id, results,
                 announced, report_owner, hit_owner, pairs, unit>>

(***************************************************************************)
(* search_parallel: the workers.                                           *)
(***************************************************************************)
\* schedule(dynamic, 1): take the next A, or leave the loop
TakeA(w) ==
  /\ mpc = "parallel" /\ w \in Active /\ wk[w].pc = "loop"
  /\ IF next_A <= params.A_max
     THEN /\ wk' = [wk EXCEPT ![w] =
                      [@ EXCEPT !.pc = "row", !.A = next_A, !.B = params.B_start,
                                !.lane = 0, !.a_tested = 0, !.a_gcd = 0,
                                !.a_mod = 0, !.a_exact = 0]]
          /\ next_A' = next_A + 1
     ELSE /\ wk' = [wk EXCEPT ![w] =
                      [@ EXCEPT !.pc = "barrier", !.A = 0, !.B = 0, !.lane = 0]]
          /\ UNCHANGED next_A
  /\ UNCHANGED <<envvars, mpc, exit_code, data, num_threads, run_id, glob,
                 results, log, announced, clock, start_time, last_report_time,
                 report_owner, hit_owner, pairs, unit>>

\* the inner loop(s) over B, up to the next verified hit or the end of the row
WalkRow(w) ==
  /\ mpc = "parallel" /\ w \in Active /\ wk[w].pc = "row"
  /\ \E acc \in {scan_row(wk[w], pairs, params, data, build.avx2)} :
         /\ wk' = [wk EXCEPT ![w] =
                     [@ EXCEPT !.pc = IF acc.pending.hit THEN "hit" ELSE "add_tested",
                               !.B = acc.B, !.lane = acc.lane,
                               !.a_tested = acc.a_tested, !.a_gcd = acc.a_gcd,
                               !.a_mod = acc.a_mod, !.a_exact = acc.a_exact,
                               !.pending = acc.pending]]
         /\ pairs' = acc.hist
  /\ UNCHANGED <<envvars, mpc, exit_code, data, num_threads, run_id, next_A,
                 glob, results, log, announced, clock, start_time,
                 last_report_time, report_owner, hit_owner, unit>>

\* What a verified hit does to the worker's buffer and the shared hit list.
\* 8-lane path: a full buffer is dumped under omp critical, then the hit is
\* stored.  Scalar path: the hit is stored only while the buffer has room.
store_hit(buf, hit, avx2) ==
  IF Len(buf) < LocalHitCap
  THEN [buf |-> Append(buf, hit), flush |-> <<>>]
  ELSE IF avx2 THEN [buf |-> <<hit>>, flush |-> buf]
  ELSE [buf |-> buf, flush |-> <<>>]

\* omp critical entered by worker w: the holder of its lock (without
\* _OPENMP the pragma is compiled out and there is no lock)
critical_enter(w, openmp) == IF openmp THEN w ELSE 0

\* a critical section whose end does not give the lock back
critical_leave_kept(w) == w

\* the end of the critical section worker w is in: the lock is free
critical_leave(w) == 0

\* a hit of the verifier: into the buffer if it has room; a full buffer is
\* dumped first on the 8-lane path and the hit is dropped on the scalar path
RecordHit(w) ==
  /\ mpc = "parallel" /\ w \in Active /\ wk[w].pc = "hit"
  /\ LET me  == wk[w]
         hit == BealHit(me.A, last_B(me, build.avx2), me.pending, params)
         st  == store_hit(me.local_hits, hit, build.avx2)
     IN  IF st.flush # <<>>
         THEN /\ wk' = [wk EXCEPT ![w] = [@ EXCEPT !.pc = "flush"]]
              /\ UNCHANGED announced
         ELSE IF build.avx2
         THEN /\ wk' = [wk EXCEPT ![w] =
                          IF hit.gcd = 1
                          THEN [@ EXCEPT !.pc = "announce", !.local_hits = st.buf]
                          ELSE [@ EXCEPT !.pc = "row", !.local_hits = st.buf,
                                         !.pending = NoHit]]
              /\ UNCHANGED announced
         ELSE /\ wk' = [wk EXCEPT ![w] =
                          [@ EXCEPT !.pc = "row", !.local_hits = st.buf,
                                    !.pending = NoHit]]
              /\ announced' = IF hit.gcd = 1          \* printf, no critical
                              THEN announced \cup {<<hit.A, hit.B, hit.C>>}
                              ELSE announced
  /\ UNCHANGED <<envvars, mpc, exit_code, data, num_threads, run_id, next_A,
                 glob, results, log, clock, start_time, last_report_time,
                 report_owner, hit_owner, pairs, unit>>

\* omp critical (the dump of a full buffer): entry
FlushEnter(w) ==
  /\ mpc = "parallel" /\ w \in Active /\ wk[w].pc = "flush"
  /\ hit_owner = 0
  /\ hit_owner' = critical_enter(w, build.openmp)
  /\ wk' = [wk EXCEPT ![w] = [@ EXCEPT !.pc = "flushing"]]
  /\ UNCHANGED <<envvars, mpc, exit_code, data, num_threads, run_id, next_A,
                 glob, results, log, announced, clock, start_time,
                 last_report_time, report_owner, pairs, unit>>

\* results_add_hit and log_hit for the buffered hits, the end of the
\* critical section, then the new hit as the buffer's only entry
FlushDump(w) ==
  /\ mpc = "parallel" /\ w \in Active /\ wk[w].pc = "flushing"
  /\ LET me  == wk[w]
         hit == BealHit(me.A, last_B(me, build.avx2), me.pending, params)
         st  == store_hit(me.local_hits, hit, build.avx2)
         fl  == flush_hits(results.hits, log, st.flush, log_ok)
     IN  /\ results' = [results EXCEPT !.hits = fl[1]]
         /\ log' = fl[2]
         /\ wk' = [wk EXCEPT ![w] =
                     IF hit.gcd = 1
                     THEN [@ EXCEPT !.pc = "announce", !.local_hits = st.buf]
                     ELSE [@ EXCEPT !.pc = "row", !.local_hits = st.buf,
                                    !.pending = NoHit]]
  /\ hit_owner' = critical_leave(w)
  /\ UNCHANGED <<envvars, mpc, exit_code, data, num_threads, run_id, next_A,
                 glob, announced, clock, start_time, last_report_time,
                 report_owner, pairs, unit>>

\* omp critical (the COUNTEREXAMPLE notice of the 8-lane path): entry
AnnounceEnter(w) ==
  /\ mpc = "parallel" /\ w \in Active /\ wk[w].pc = "announce"
  /\ hit_owner = 0
  /\ hit_owner' = critical_enter(w, build.openmp)
  /\ wk' = [wk EXCEPT ![w] = [@ EXCEPT !.pc = "announcing"]]
  /\ UNCHANGED <<envvars, mpc, exit_code, data, num_threads, run_id, next_A,
                 glob, results, log, announced, clock, start_time,
                 last_report_time, report_owner, pairs, unit>>

\* the printf and the end of the critical section
AnnouncePrint(w) ==
  /\ mpc = "parallel" /\ w \in Active /\ wk[w].pc = "announcing"
  /\ LET me  == wk[w]
         hit == BealHit(me.A, last_B(me, build.avx2), me.pending, params)
     IN  announced' = announced \cup {<<hit.A, hit.B, hit.C>>}
  /\ hit_owner' = critical_leave(w)
  /\ wk' = [wk EXCEPT ![w] = [@ EXCEPT !.pc = "row", !.pending = NoHit]]
  /\ UNCHANGED <<envvars, mpc, exit_code, data, num_threads, run_id, next_A,
                 glob, results, log, clock, start_time, last_report_time,
                 report_owner, pairs, unit>>

\* a plain store of the worker's count in place of the addition
atomic_store(counter, n) == n

\* atomic_fetch_add(&counter, n): the new value of the counter
atomic_fetch_add(counter, n) == counter + n

\* atomic_fetch_add(&global_tested, a_tested)
AddTested(w) ==
  /\ mpc = "parallel" /\ w \in Active /\ wk[w].pc = "add_tested"
  /\ glob' = [glob EXCEPT !.tested = atomic_fetch_add(@, wk[w].a_tested)]
  /\ wk' = [wk EXCEPT ![w] = [@ EXCEPT !.pc = "add_gcd"]]
  /\ UNCHANGED <<envvars, mpc, exit_code, data, num_threads, run_id, next_A,
                 results, log, announced, clock, start_time, last_report_time,
                 report_owner, hit_owner, pairs, unit>>

\* atomic_fetch_add(&global_gcd_skips, a_gcd)
AddGcd(w) ==
  /\ mpc = "parallel" /\ w \in Active /\ wk[w].pc = "add_gcd"
  /\ glob' = [glob EXCEPT !.gcd_skips = atomic_fetch_add(@, wk[w].a_gcd)]
  /\ wk' = [wk EXCEPT ![w] = [@ EXCEPT !.pc = "add_mod"]]
  /\ UNCHANGED <<envvars, mpc, exit_code, data, num_threads, run_id, next_A,
                 results, log, announced, clock, start_time, last_report_time,
                 report_owner, hit_owner, pairs, unit>>

\* atomic_fetch_add(&global_mod_skips, a_mod)
AddModSkips(w) ==
  /\ mpc = "parallel" /\ w \in Active /\ wk[w].pc = "add_mod"
  /\ glob' = [glob EXCEPT !.mod_skips = atomic_fetch_add(@, wk[w].a_mod)]
  /\ wk' = [wk EXCEPT ![w] = [@ EXCEPT !.pc = "add_exact"]]
  /\ UNCHANGED <<envvars, mpc, exit_code, data, num_threads, run_id, next_A,
                 results, log, announced, clock, start_time, last_report_time,
                 report_owner, hit_owner, pairs, unit>>

\* atomic_fetch_add(&global_exact_checks, a_exact)
AddExact(w) ==
  /\ mpc = "parallel" /\ w \in Active /\ wk[w].pc = "add_exact"
  /\ glob' = [glob EXCEPT !.exact_checks = atomic_fetch_add(@, wk[w].a_exact)]
  /\ wk' = [wk EXCEPT ![w] =
              [@ EXCEPT !.pc = "sample", !.a_tested = 0, !.a_gcd = 0,
                        !.a_mod = 0, !.a_exact = 0]]
  /\ UNCHANGED <<envvars, mpc, exit_code, data, num_threads, run_id, next_A,
                 results, log, announced, clock, start_time, last_report_time,
                 report_owner, hit_owner, pairs, unit>>

\* now = omp_get_wtime(); if (now - last_report_time > 1.0)
SampleNow(w) ==
  /\ mpc = "parallel" /\ w \in Active /\ wk[w].pc = "sample"
  /\ \E t \in Readings :
       /\ clock' = t
       /\ wk' = [wk EXCEPT ![w] =
                   IF t - last_report_time > 1
                   THEN [@ EXCEPT !.pc = "report", !.now = t]
                   ELSE [@ EXCEPT !.pc = "loop"]]
  /\ UNCHANGED <<envvars, mpc, exit_code, data, num_threads, run_id, next_A,
                 glob, results, log, announced, start_time,
                 last_report_time, report_owner, hit_owner, pairs, unit>>

\* critical(report) entered without looking at the time again
report_still_due_unchecked(now, last) == TRUE

\* the second if (now - last_report_time > 1.0), inside critical(report)
report_still_due(now, last) == now - last > 1

\* omp critical(report): the re-check, last_report_time = now, the load of
\* global_tested
ReportEnter(w) ==
  /\ mpc = "parallel" /\ w \in Active /\ wk[w].pc = "report"
  /\ report_owner = 0
  /\ IF report_still_due(wk[w].now, last_report_time)
     THEN /\ last_report_time' = wk[w].now
          /\ report_owner' = w
          /\ wk' = [wk EXCEPT ![w] =
                      [@ EXCEPT !.pc = "report_log", !.tested = glob.tested]]
     ELSE /\ wk' = [wk EXCEPT ![w] = [@ EXCEPT !.pc = "loop", !.now = 0]]
          /\ UNCHANGED <<last_report_time, report_owner>>
  /\ UNCHANGED <<envvars, mpc, exit_code, data, num_threads, run_id, next_A,
                 glob, results, log, announced, clock, start_time, pairs, unit, hit_owner>>

\* the loads of global_gcd_skips and global_mod_skips, log_checkpoint, and
\* the end of the critical section
ReportLog(w) ==
  /\ mpc = "parallel" /\ w \in Active /\ wk[w].pc = "report_log"
  /\ report_owner = w
  /\ log' = log_checkpoint(log, run_id,
                           <<wk[w].tested, expected_pairs(params),
                             glob.gcd_skips, glob.mod_skips>>,
                           wk[w].now - start_time,
                           <<wk[w].A - params.A_start,
                             params.A_max - params.A_start>>,
                           log_ok)
  /\ report_owner' = 0
  /\ wk' = [wk EXCEPT ![w] = [@ EXCEPT !.pc = "loop", !.now = 0, !.tested = 0]]
  /\ UNCHANGED <<envvars, mpc, exit_code, data, num_threads, run_id, next_A,
                 glob, results, announced, clock, start_time, last_report_time,
                 pairs, unit, hit_owner>>

\* the barrier that ends omp for; if (local_hit_count > 0) the entry of omp
\* critical
MergeEnter(w) ==
  /\ mpc = "parallel" /\ w \in Active /\ wk[w].pc = "barrier"
  /\ \A v \in Active : wk[v].pc \in {"barrier", "merging", "done"}
  /\ \/ /\ wk[w].local_hits = <<>>
        /\ wk' = [wk EXCEPT ![w] = [@ EXCEPT !.pc = "done"]]
        /\ UNCHANGED hit_owner
     \/ /\ wk[w].local_hits # <<>>
        /\ hit_owner = 0
        /\ hit_owner' = critical_enter(w, build.openmp)
        /\ wk' = [wk EXCEPT ![w] = [@ EXCEPT !.pc = "merging"]]
  /\ UNCHANGED <<envvars, mpc, exit_code, data, num_threads, run_id, next_A,
                 glob, results, log, announced, clock, start_time,
                 last_report_time, report_owner, pairs, unit>>

\* the merge of the remaining hits and the end of the critical section
MergeHits(w) ==
  /\ mpc = "parallel" /\ w \in Active /\ wk[w].pc = "merging"
  /\ LET fl == flush_hits(results.hits, log, wk[w].local_hits, log_ok)
     IN  /\ results' = [results EXCEPT !.hits = fl[1]]
         /\ log' = fl[2]
  /\ hit_owner' = critical_leave(w)
  /\ wk' = [wk EXCEPT ![w] = [@ EXCEPT !.pc = "done", !.local_hits = <<>>]]
  /\ UNCHANGED <<envvars, mpc, exit_code, data, num_threads, run_id, next_A,
                 glob, announced, clock, start_time, last_report_time,
                 report_owner, pairs, unit>>

(***************************************************************************)
(* search_parallel: finalization, after the parallel region.               *)
(***************************************************************************)
\* the loop counting the entries whose gcd is not 1
count_primitive_gcd_above_1(hits) ==
  Cardinality({k \in 1..Len(hits) : hits[k].gcd # 1})

\* for (i = 0; i < hits_count; i++) if (hits[i].gcd == 1) primitive_hits++
count_primitive(hits) == Cardinality({k \in 1..Len(hits) : hits[k].gcd = 1})

\* finalize_results without the copy of global_exact_checks
finalize_results_no_exact(res, g) ==
  [res EXCEPT !.total_pairs = g.tested, !.gcd_filtered = g.gcd_skips,
              !.mod_filtered = g.mod_skips,
              !.power_hits = Len(res.hits),
              !.primitive_hits = count_primitive(res.hits)]

finalize_results(res, g) ==
  [res EXCEPT !.total_pairs = g.tested, !.gcd_filtered = g.gcd_skips,
              !.mod_filtered = g.mod_skips, !.exact_checks = g.exact_checks,
              !.power_hits = Len(res.hits),
              !.primitive_hits = count_primitive(res.hits)]

Finalize ==
  /\ mpc = "parallel"
  /\ \A w \in Active : wk[w].pc = "done"
  /\ results' = finalize_results(results, glob)
  /\ log' = log_complete(log, run_id, params, results', log_ok)
  /\ data' = NULL     \* precompute_free
  /\ wk' = [w \in Workers |-> IdleWorker]
  /\ mpc' = "returned"
  /\ UNCHANGED <<envvars, exit_code, num_threads, run_id, next_A, glob,
                 announced, clock, start_time, last_report_time, report_owner, hit_owner,
                 pairs, unit>>

(***************************************************************************)
(* main.                                                                   *)
(***************************************************************************)
\* the argument checks of main without the check of the ranges
params_valid_no_range(p) ==
  /\ ~(p.x < 3 \/ p.y < 3 \/ p.z < 3)
  /\ ~(p.A_start < 1 \/ p.B_start < 1)

\* the three argument checks of main, in order; TRUE when all pass
params_valid(p) ==
  /\ ~(p.x < 3 \/ p.y < 3 \/ p.z < 3)
  /\ ~(p.A_start < 1 \/ p.B_start < 1)
  /\ ~(p.A_max < p.A_start \/ p.B_max < p.B_start)

\* main returning 0 whatever the search found
main_exit_code_zero(primitive_hits) == 0

\* return results.primitive_hits > 0 ? 42 : 0
main_exit_code(primitive_hits) == IF primitive_hits > 0 THEN 42 ELSE 0

MainValidate ==
  /\ mpc = "main"
  /\ IF params_valid(params)
     THEN /\ mpc' = "search_entry"
          /\ UNCHANGED exit_code
     ELSE /\ mpc' = "exited"
          /\ exit_code' = 1
  /\ UNCHANGED <<envvars, data, num_threads, run_id, next_A, wk, glob, results,
                 log, announced, clock, start_time, last_report_time,
                 report_owner, hit_owner, pairs, unit>>

MainReturn ==
  /\ mpc = "returned"
  /\ exit_code' = main_exit_code(results.primitive_hits)
  /\ mpc' = "exited"
  /\ UNCHANGED <<envvars, data, num_threads, run_id, next_A, wk, glob, results,
                 log, announced, clock, start_time, last_report_time,
                 report_owner, hit_owner, pairs, unit>>

(***************************************************************************)
(* Specifications.                                                         *)
(***************************************************************************)
\* everything search_parallel and main own, before either has run
Quiescent ==
  /\ exit_code = -1
  /\ data = NULL
  /\ num_threads = 0
  /\ run_id = 0
  /\ next_A = 0
  /\ wk = [w \in Workers |-> IdleWorker]
  /\ glob = ZeroCounters
  /\ results = results_init
  /\ log = <<>>
  /\ announced = {}
  /\ clock = 0
  /\ start_time = 0
  /\ last_report_time = 0
  /\ report_owner = 0
  /\ hit_owner = 0
  /\ pairs = [pr \in PairDom |-> ZeroPair]

Builds == [openmp : BOOLEAN, avx2 : BOOLEAN]

\* signatures with C_max for calls of search_parallel: a valid one, one with
\* square sums (1^3 + 2^3 = 3^2), and one where every small sum is a hit
SearchConfigs == {<<3, 3, 3, 1000>>, <<3, 3, 2, 1000>>, <<1, 1, 1, 5>>}

\* SearchParams a client hands to search_parallel
SearchParams ==
  {[x |-> c[1], y |-> c[2], z |-> c[3], C_max |-> c[4],
    A_start |-> s, A_max |-> MaxA, B_start |-> s, B_max |-> MaxB,
    num_threads |-> n] :
     c \in SearchConfigs, s \in 1..MaxA, n \in 1..MaxThreads}

\* SearchParams main has parsed from its command line (--threads not given)
MainParams ==
  {[x |-> e[1], y |-> e[2], z |-> e[3], C_max |-> 1000,
    A_start |-> as, A_max |-> am, B_start |-> bs, B_max |-> bm,
    num_threads |-> 0] :
     e \in {2, 3} \X {2, 3} \X {2, 3},
     as \in 0..1, am \in {0, MaxA}, bs \in 0..1, bm \in {0, MaxB}}

\* main after getopt, or a client's call of search_parallel
Init ==
  /\ \/ mpc = "main" /\ unit = Entry("main") /\ params \in MainParams
     \/ /\ mpc = "search_entry" /\ unit = Entry("search_parallel")
        /\ params \in SearchParams
  /\ build \in Builds
  /\ alloc \in AllocPoints
  /\ log_ok \in BOOLEAN
  /\ Quiescent

\* every step of a worker but its walk over a row
WorkerStep(w) ==
  \/ TakeA(w)
  \/ RecordHit(w)
  \/ FlushEnter(w)
  \/ FlushDump(w)
  \/ AnnounceEnter(w)
  \/ AnnouncePrint(w)
  \/ AddTested(w)
  \/ AddGcd(w)
  \/ AddModSkips(w)
  \/ AddExact(w)
  \/ SampleNow(w)
  \/ ReportEnter(w)
  \/ ReportLog(w)
  \/ MergeEnter(w)
  \/ MergeHits(w)

SearchNext ==
  \/ Precompute
  \/ SampleRunId
  \/ StartParallel
  \/ \E w \in Workers : WorkerStep(w)
  \/ \E w \in Workers : WalkRow(w)
  \/ Finalize

Next ==
  \/ MainValidate
  \/ SearchNext
  \/ MainReturn

Spec == Init /\ [][Next]_vars

\* The threads of the parallel region and the main thread are scheduled by
\* the operating system: while some thread can take a step, a step is taken.
SpecFair == Spec /\ WF_vars(Next)

(***************************************************************************)
(* The search as one worker alone carries it out, in program order.        *)
(***************************************************************************)
\* a row from the cursor of w to its end, hits stored as RecordHit does
RECURSIVE single_worker_row(_, _, _, _, _)
single_worker_row(w, hits, p, d, avx2) ==
  LET acc == scan_row(w, [pr \in PairDom |-> ZeroPair], p, d, avx2)
      w1  == [w EXCEPT !.B = acc.B, !.lane = acc.lane,
                       !.a_tested = acc.a_tested, !.a_gcd = acc.a_gcd,
                       !.a_mod = acc.a_mod, !.a_exact = acc.a_exact]
      hit == BealHit(w.A, last_B(w1, avx2), acc.pending, p)
      st  == store_hit(w.local_hits, hit, avx2)
  IN  IF ~acc.pending.hit THEN <<w1, hits>>
      ELSE single_worker_row([w1 EXCEPT !.local_hits = st.buf],
                             hits \o st.flush, p, d, avx2)

\* the rows A..A_max, the counters added up after each row
RECURSIVE single_worker_rows(_, _, _, _, _, _)
single_worker_rows(A, w, hits_g, p, d, avx2) ==
  IF A > p.A_max THEN <<w, hits_g>>
  ELSE LET r  == single_worker_row(
                   [w EXCEPT !.A = A, !.B = p.B_start, !.lane = 0,
                             !.a_tested = 0, !.a_gcd = 0, !.a_mod = 0,
                             !.a_exact = 0],
                   hits_g[1], p, d, avx2)
           g  == hits_g[2]
           g1 == [tested       |-> g.tested + r[1].a_tested,
                  gcd_skips    |-> g.gcd_skips + r[1].a_gcd,
                  mod_skips    |-> g.mod_skips + r[1].a_mod,
                  exact_checks |-> g.exact_checks + r[1].a_exact]
       IN  single_worker_rows(A + 1, r[1], <<r[2], g1>>, p, d, avx2)

\* SearchResults of search_parallel run by a single worker
single_worker_results(p, avx2) ==
  LET d == precompute_tables(p.x, p.y, p.z, p.A_max, p.B_max)
      r == single_worker_rows(p.A_start, IdleWorker, <<<<>>, ZeroCounters>>,
                              p, d, avx2)
  IN  finalize_results(
        [results_init EXCEPT !.hits = r[2][1] \o r[1].local_hits], r[2][2])

(***************************************************************************)
(* Properties of the search and of main.                                   *)
(***************************************************************************)
\* search_parallel has run to its end (precompute succeeded)
SearchCompleted ==
  mpc \in {"returned", "exited"} /\ num_threads > 0 /\ alloc = "none"

InRange(pr, p) ==
  /\ p.A_start <= pr[1] /\ pr[1] <= p.A_max
  /\ p.B_start <= pr[2] /\ pr[2] <= p.B_max

\* the six counters of SearchResults
Counters(res) ==
  <<res.total_pairs, res.gcd_filtered, res.mod_filtered, res.exact_checks,
    res.power_hits, res.primitive_hits>>

\* C1: after a completed search, gcd_filtered + mod_filtered + exact_checks
\* equals total_pairs, whatever the build, the worker count, the interleaving.
C1_CounterSum ==
  SearchCompleted =>
    results.gcd_filtered + results.mod_filtered + results.exact_checks
      = results.total_pairs

C1_Witness ==
  /\ SearchCompleted /\ num_threads > 1
  /\ results.gcd_filtered > 0 /\ results.mod_filtered > 0
  /\ results.exact_checks > 0

\* C2: no pair is run through the pipeline twice; at completion every pair of
\* the rectangle has been run through it exactly once, no pair outside it has,
\* and total_pairs is the size of the rectangle.
C2_EachPairOnce ==
  /\ \A pr \in PairDom : pairs[pr].tested <= 1
  /\ SearchCompleted =>
       /\ \A pr \in PairDom :
            pairs[pr].tested = IF InRange(pr, params) THEN 1 ELSE 0
       /\ results.total_pairs = expected_pairs(params)

C2_Witness ==
  /\ SearchCompleted /\ build.avx2 /\ num_threads > 1
  /\ (params.B_max - params.B_start + 1) % 8 # 0
  /\ pairs[<<params.A_max, params.B_max>>].tested = 1
  /\ results.total_pairs = expected_pairs(params)

\* C3: a completed search ends with the six counters, and the integrity_hash
\* in COMPLETE, of the single-worker run of the same SearchParams, whatever
\* the thread count and the interleaving.
C3_Determinism ==
  SearchCompleted =>
    LET ref == single_worker_results(params, build.avx2)
    IN  /\ Counters(results) = Counters(ref)
        /\ log_ok => log[Len(log)].integrity_hash = integrity_hash(params, ref)

\* C4: a pair with gcd64(A, B) > 1 never reaches the verifier and is counted
\* as a gcd skip only, on both driver paths; at completion gcd_filtered is
\* the number of such pairs in the rectangle.
C4_GcdPairsSkipVerifier ==
  /\ \A pr \in PairDom :
       gcd64(pr[1], pr[2]) > 1 =>
         /\ pairs[pr].verify = 0 /\ pairs[pr].mod = 0 /\ pairs[pr].exact = 0
         /\ pairs[pr].gcd = pairs[pr].tested
  /\ SearchCompleted =>
       results.gcd_filtered =
         Cardinality({pr \in PairDom :
                        InRange(pr, params) /\ gcd64(pr[1], pr[2]) > 1})

\* the pair (2, 2) passes the 8-lane sieve of its block and was skipped
C4_Witness ==
  /\ mpc = "parallel" /\ build.avx2
  /\ pairs[<<2, 2>>].gcd = 1
  /\ BitAt(sieve_survives_avx2_8(2, params.B_start, data),
           2 - params.B_start) = 1

\* C9: when main exits after a search, the exit code is 42 iff primitive_hits
\* > 0 and 0 otherwise; the COMPLETE record's status is COUNTEREXAMPLE_FOUND
\* iff primitive_hits > 0 and CLEAR otherwise.
C9_ExitCodeAndStatus ==
  (mpc = "exited" /\ SearchCompleted) =>
    /\ exit_code = IF results.primitive_hits > 0 THEN 42 ELSE 0
    /\ log_ok =>
         /\ log[Len(log)].event = "COMPLETE"
         /\ log[Len(log)].status =
              IF results.primitive_hits > 0 THEN "COUNTEREXAMPLE_FOUND"
              ELSE "CLEAR"
         /\ (exit_code = 42) <=> (log[Len(log)].status = "COUNTEREXAMPLE_FOUND")

C9_Witness ==
  /\ mpc = "exited" /\ SearchCompleted /\ log_ok
  /\ exit_code = 42
  /\ log[Len(log)].status = "COUNTEREXAMPLE_FOUND"

\* the arguments the usage checks accept
UsageOk(p) ==
  /\ p.x >= 3 /\ p.y >= 3 /\ p.z >= 3
  /\ p.A_start >= 1 /\ p.B_start >= 1
  /\ p.A_max >= p.A_start /\ p.B_max >= p.B_start

\* C10: main, given arguments with a usage error, exits with a code that is
\* neither 0 nor 42, having called neither search_parallel nor
\* precompute_create and having written no log record.
C10_UsageErrorsRejected ==
  (unit.fn = "main" /\ ~UsageOk(params) /\ mpc # "main") =>
    /\ mpc = "exited"
    /\ exit_code # 0 /\ exit_code # 42
    /\ num_threads = 0 /\ data = NULL /\ results = results_init
    /\ log = <<>>

\* valid exponents and starts, an inverted A range
C10_Witness ==
  /\ unit.fn = "main" /\ mpc = "exited" /\ exit_code = 1
  /\ params.x >= 3 /\ params.y >= 3 /\ params.z >= 3
  /\ params.A_start >= 1 /\ params.B_start >= 1
  /\ params.A_max < params.A_start

\* the positions of the records of one kind in the log
LogEvents(kind) == {k \in 1..Len(log) : log[k].event = kind}

\* search_parallel is past log_start (precompute succeeded)
SearchStarted ==
  /\ mpc \in {"parallel", "returned", "exited"} /\ num_threads > 0
  /\ alloc = "none"

\* the log as the lifecycle orders it: START is the first record and the only
\* START, COMPLETE is the last record and the only COMPLETE and is there only
\* once the workers are through and their hits flushed, with the final values
\* of the atomics
LogOrdered ==
  /\ LogEvents("START") \subseteq {1}
  /\ log # <<>> => log[1].event = "START"
  /\ LogEvents("COMPLETE") \subseteq {Len(log)}
  /\ LogEvents("COMPLETE") # {} =>
       /\ SearchCompleted
       /\ \A w \in Workers : wk[w].pc = "off" /\ wk[w].local_hits = <<>>
       /\ Cardinality(LogEvents("POWER_HIT")) = Len(results.hits)
       /\ log[Len(log)].total_pairs = glob.tested
       /\ log[Len(log)].gcd_filtered = glob.gcd_skips
       /\ log[Len(log)].mod_filtered = glob.mod_skips
       /\ log[Len(log)].exact_checks = glob.exact_checks
       /\ glob.tested = expected_pairs(params)

VerifiedHits ==
  {pr \in PairDom :
     /\ pairs[pr].verify > 0
     /\ check_beal_hit_gmp(pr[1], pr[2], <<params.x, params.y, params.z>>,
                           params.C_max).hit}

\* how often the pair pr occurs in a sequence of hits or of log records
Occurrences(sq, pr) ==
  Cardinality({k \in 1..Len(sq) : sq[k].A = pr[1] /\ sq[k].B = pr[2]})

PowerHitRecords == SelectSeq(log, LAMBDA r : r.event = "POWER_HIT")

\* C12: at the end of search_parallel every pair on which the verifier
\* returned a hit is exactly once in results.hits and, the log being
\* writable, has exactly one POWER_HIT record; no other pair is in either.
C12_NoHitLost ==
  SearchCompleted =>
    \A pr \in PairDom :
      LET n == IF pr \in VerifiedHits THEN 1 ELSE 0
      IN  /\ Occurrences(results.hits, pr) = n
          /\ log_ok => Occurrences(PowerHitRecords, pr) = n

\* C12 on the 8-lane path, where a full buffer is flushed
C12_NoHitLost_Avx == build.avx2 => C12_NoHitLost

\* an 8-lane run in which a worker flushed a full buffer
C12_Avx_Witness ==
  /\ SearchCompleted /\ build.avx2 /\ log_ok
  /\ Len(results.hits) > LocalHitCap * num_threads

\* search_parallel has returned, with or without tables
SearchReturned == mpc \in {"returned", "exited"} /\ num_threads > 0

\* C13: in the results search_parallel returns, power_hits is the length of
\* the shared hit list, primitive_hits the number of its entries with gcd 1,
\* and 0 <= primitive_hits <= power_hits.
C13_HitCounts ==
  SearchReturned =>
    /\ results.power_hits = Len(results.hits)
    /\ results.primitive_hits =
         Cardinality({k \in DOMAIN results.hits : results.hits[k].gcd = 1})
    /\ 0 <= results.primitive_hits
    /\ results.primitive_hits <= results.power_hits

\* a finished two-worker run with hits merged from both workers
C13_Witness ==
  /\ SearchCompleted /\ num_threads > 1
  /\ results.power_hits > 1 /\ results.primitive_hits > 0
  /\ \E j, k \in DOMAIN results.hits : results.hits[j].A # results.hits[k].A

\* C14: once precompute_create has returned NULL, search_parallel has
\* returned: no worker was started, no pair was processed, no counter moved,
\* and the log holds no record, COMPLETE or other.
C14_PrecomputeFailureAborts ==
  (num_threads > 0 /\ alloc # "none") =>
    /\ data = NULL
    /\ mpc \in {"returned", "exited"}
    /\ wk = [w \in Workers |-> IdleWorker]
    /\ pairs = [pr \in PairDom |-> ZeroPair]
    /\ glob = ZeroCounters /\ next_A = 0
    /\ results = results_init
    /\ log = <<>> /\ announced = {}

\* the by_mod row array could not be allocated, the log could be opened
C14_Witness ==
  /\ num_threads > 0 /\ alloc = "by_mod" /\ log_ok
  /\ unit.fn = "search_parallel" /\ mpc = "returned"
  /\ data = NULL /\ log = <<>>

\* per pair, how often it occurs in a hit list
HitBag(hits) == [pr \in PairDom |-> Occurrences(hits, pr)]

\* C16: a completed search ends with the four pair counters, the set of
\* hits, power_hits and primitive_hits of the search of the same SearchParams
\* on the other driver path, and with the same POWER_HIT records, each as
\* often.
C16_PathEquivalence ==
  SearchCompleted =>
    LET other == single_worker_results(params, ~build.avx2)
    IN  /\ Counters(results) = Counters(other)
        /\ {results.hits[k] : k \in DOMAIN results.hits}
             = {other.hits[k] : k \in DOMAIN other.hits}
        /\ log_ok =>
             /\ {PowerHitRecords[k] : k \in DOMAIN PowerHitRecords}
                  = {hit_record(other.hits[k]) : k \in DOMAIN other.hits}
             /\ HitBag(PowerHitRecords) = HitBag(other.hits)

\* C16 for the searches in which no worker verifies more hits than its
\* buffer holds
C16_PathEquivalence_FewHits ==
  params.x > 1 => C16_PathEquivalence

\* search_parallel has been entered and its tables can be built
SearchEntered == mpc = "search_entry" /\ alloc = "none"

\* the sweep is over: every pair of the rectangle went through the pipeline,
\* the workers have left the parallel region, both locks are free,
\* search_parallel has returned
SweptAndReturned ==
  /\ mpc \in {"returned", "exited"}
  /\ \A pr \in PairDom : InRange(pr, params) => pairs[pr].tested = 1
  /\ \A w \in Workers : wk[w].pc = "off"
  /\ hit_owner = 0 /\ report_owner = 0

\* C19 as stated: a search whose precompute succeeds sweeps every A, its
\* workers leave the parallel region, and COMPLETE ends up in the log.
C19_RunsToCompletion_AsStated ==
  SearchEntered ~> (SweptAndReturned /\ LogEvents("COMPLETE") # {})

\* C19: a search whose precompute succeeds sweeps every A, hits or no hits,
\* its workers leave the parallel region and search_parallel gets to
\* log_complete and returns; COMPLETE ends up in the log when the log file
\* can be opened.  Every worker has then left the region and both locks
\* are free, so no worker waited forever for a lock or at the barrier.
C19_RunsToCompletion ==
  SearchEntered ~> (SweptAndReturned /\ (log_ok => LogEvents("COMPLETE") # {}))

\* a worker with a primitive hit waits for the lock another worker holds
C19_Witness ==
  /\ mpc = "parallel" /\ build.openmp
  /\ \E w, v \in Active :
       /\ w # v /\ hit_owner = v
       /\ wk[w].pc \in {"flush", "announce"} /\ wk[w].pending.hit

\* worker w is inside a critical section that calls log_hit
InLogHit(w) == wk[w].pc \in {"flushing", "merging"}

\* worker w is inside critical(report), before its log_checkpoint returns
InLogCheckpoint(w) == wk[w].pc = "report_log"

\* C21: at no time are two workers inside a log-writing call: hit emission
\* and progress emission exclude each other as well as themselves.
C21_LogWritesSerialized ==
  Cardinality({w \in Workers : InLogHit(w) \/ InLogCheckpoint(w)}) <= 1

\* each kind of emission excludes itself
C21_SameKindSerialized ==
  /\ Cardinality({w \in Workers : InLogHit(w)}) <= 1
  /\ Cardinality({w \in Workers : InLogCheckpoint(w)}) <= 1

\* the CHECKPOINT records of the log, in file order
Checkpoints == SelectSeq(log, LAMBDA rec : rec.event = "CHECKPOINT")

\* the sampled now of a CHECKPOINT record (it logs now - start_time)
SampledNow(rec) == start_time + rec.elapsed_seconds

\* C22: any two CHECKPOINT records of a run are taken at sampled values of
\* now more than a second apart, the later record at the later now, and
\* last_report_time never decreases.
C22_CheckpointThrottle ==
  /\ [](\A j, k \in 1..Len(Checkpoints) :
          j < k => SampledNow(Checkpoints[k]) - SampledNow(Checkpoints[j]) > 1)
  /\ [][last_report_time' >= last_report_time]_vars

\* two reports in one run, by two workers
C22_Witness ==
  /\ Len(Checkpoints) = 2 /\ num_threads = 2
  /\ last_report_time = SampledNow(Checkpoints[2])

\* chunks_done <= chunks_total in every CHECKPOINT record, and the same
\* chunks_total in all of them
C23_ChunksBounded ==
  \A j, k \in 1..Len(Checkpoints) :
    /\ Checkpoints[k].chunks_done <= Checkpoints[k].chunks_total
    /\ Checkpoints[j].chunks_total = Checkpoints[k].chunks_total

\* C23: in every CHECKPOINT record chunks_done <= chunks_total, chunks_total
\* is the same in all records of a run, and chunks_done does not decrease
\* from one CHECKPOINT record to the next.
C23_ChunksMonotone ==
  /\ C23_ChunksBounded
  /\ \A j, k \in 1..Len(Checkpoints) :
       j < k => Checkpoints[j].chunks_done <= Checkpoints[k].chunks_done

LibraryOnly ==
  /\ params = [x |-> 0, y |-> 0, z |-> 0, C_max |-> 0, A_start |-> 0,
               A_max |-> 0, B_start |-> 0, B_max |-> 0, num_threads |-> 0]
  /\ build = [openmp |-> FALSE, avx2 |-> FALSE]
  /\ alloc = "none"
  /\ log_ok = TRUE
  /\ mpc = "library"
  /\ Quiescent

search_vars ==
  <<params, build, alloc, log_ok, mpc, exit_code, data, num_threads, run_id,
    next_A, wk, glob, results, log, announced, clock, start_time,
    last_report_time, report_owner, hit_owner, pairs>>

\* compute_residue_mask128(p, z, mask) for a sieve prime p
InitMask ==
  /\ unit \in {[fn |-> "compute_residue_mask128", p |-> SIEVE_PRIMES[i],
                z |-> z, done |-> FALSE, mask |-> EmptyMask] :
                 i \in PrimeIdx, z \in 1..MaxMaskExp}
  /\ LibraryOnly

CallMask ==
  /\ unit.fn = "compute_residue_mask128" /\ ~unit.done
  /\ unit' = [unit EXCEPT !.done = TRUE,
                          !.mask = compute_residue_mask128(unit.p, unit.z)]
  /\ UNCHANGED search_vars

SpecMask == InitMask /\ [][CallMask]_vars

\* check_beal_hit_gmp(A, B, x, y, z, C_max, &C, &gcd)
InitVerify ==
  /\ unit \in {[fn |-> "check_beal_hit_gmp", A |-> ab[1], B |-> ab[2],
                xyz |-> e, C_max |-> cm, done |-> FALSE, res |-> NoHit] :
                 ab \in (0..MaxBase) \X (0..MaxBase),
                 e \in (1..MaxVerifyExp) \X (1..MaxVerifyExp) \X (1..MaxVerifyExp),
                 cm \in {2, 1000}}
  /\ LibraryOnly

CallVerify ==
  /\ unit.fn = "check_beal_hit_gmp" /\ ~unit.done
  /\ unit' = [unit EXCEPT !.done = TRUE,
                          !.res = check_beal_hit_gmp(unit.A, unit.B, unit.xyz,
                                                     unit.C_max)]
  /\ UNCHANGED search_vars

SpecVerify == InitVerify /\ [][CallVerify]_vars

\* precompute_create(x, y, z, A_max, B_max), then the scalar sieve on every
\* pair of the tables and the 8-lane sieve on every block start
InitSieve ==
  /\ unit \in {[fn |-> "sieve", x |-> e[1], y |-> e[2], z |-> e[3],
                A_max |-> MaxA, B_max |-> bm, done |-> FALSE,
                scalar |-> {}, lanes |-> <<>>] :
                 e \in (1..MaxExp) \X (1..MaxExp) \X (1..MaxExp),
                 bm \in (MaxB - 1)..MaxB}
  /\ LibraryOnly

CallSieve ==
  /\ unit.fn = "sieve" /\ ~unit.done
  /\ \E d \in {precompute_create(unit.x, unit.y, unit.z, unit.A_max,
                                 unit.B_max, "none")} :
       unit' = [unit EXCEPT
                  !.done = TRUE,
                  !.scalar = {ab \in (0..d.A_max) \X (0..d.B_max) :
                                sieve_survives_scalar(ab[1], ab[2], d)},
                  !.lanes = [ab \in (0..d.A_max) \X (0..(d.B_max + 1)) |->
                               sieve_survives_avx2_8(ab[1], ab[2], d)]]
  /\ UNCHANGED search_vars

SpecSieve == InitSieve /\ [][CallSieve]_vars

\* precompute_create(x, y, z, A_max, B_max) with one malloc failing, or
\* none; then precompute_free on what it returned
InitPrecompute ==
  /\ unit \in {[fn |-> "precompute_create", A_max |-> am, fail |-> f,
                done |-> FALSE, freed |-> FALSE,
                heap |-> [ret |-> "none", live |-> {}, null_rows |-> {}]] :
                 am \in 0..MaxA, f \in Mallocs(MaxA) \cup {NoFailure}}
  /\ unit.fail \in Mallocs(unit.A_max) \cup {NoFailure}
  /\ LibraryOnly

CallPrecomputeCreate ==
  /\ unit.fn = "precompute_create" /\ ~unit.done
  /\ \E ub \in NullStoreOutcomes :
       unit' = [unit EXCEPT !.done = TRUE,
                            !.heap = precompute_create_heap(unit.A_max, unit.fail, ub)]
  /\ UNCHANGED search_vars

CallPrecomputeFree ==
  /\ unit.fn = "precompute_create" /\ unit.done /\ ~unit.freed
  /\ unit.heap.ret = "handle"
  /\ unit' = [unit EXCEPT !.freed = TRUE, !.heap = precompute_free(unit.heap)]
  /\ UNCHANGED search_vars

NextPrecompute == CallPrecomputeCreate \/ CallPrecomputeFree

SpecPrecompute == InitPrecompute /\ [][NextPrecompute]_vars

\* the arguments of the GCD self-test of run_validation
GcdTests == {<<12, 8>>, <<17, 13>>, <<100, 25>>, <<0, 5>>, <<7, 0>>, <<1, 1>>}

\* gcd64(a, b)
InitGcd ==
  /\ unit \in {[fn |-> "gcd64", a |-> ab[1], b |-> ab[2], done |-> FALSE,
                res |-> 0, rounds |-> 0] :
                 ab \in ((0..MaxGcdArg) \X (0..MaxGcdArg)) \cup GcdTests}
  /\ LibraryOnly

CallGcd ==
  /\ unit.fn = "gcd64" /\ ~unit.done
  /\ unit' = [unit EXCEPT !.done = TRUE,
                          !.res = gcd64(unit.a, unit.b),
                          !.rounds = IF unit.a = 0 \/ unit.b = 0 THEN 0
                                     ELSE gcd64_rounds(Shr(unit.a, ctzll(unit.a)),
                                                       unit.b)]
  /\ UNCHANGED search_vars

SpecGcd == InitGcd /\ [][CallGcd]_vars

\* powmod(base, exp, m)
InitPowmod ==
  /\ unit \in {[fn |-> "powmod", base |-> b, exp |-> e, m |-> m, done |-> FALSE,
                res |-> 0, products |-> {}] :
                 b \in 0..MaxPowBase, e \in 0..MaxPowExp,
                 m \in (2..MaxMod) \cup {SIEVE_PRIMES[i] : i \in PrimeIdx} \cup {1000}}
  /\ LibraryOnly

CallPowmod ==
  /\ unit.fn = "powmod" /\ ~unit.done
  /\ unit' = [unit EXCEPT !.done = TRUE,
                          !.res = powmod(unit.base, unit.exp, unit.m),
                          !.products = powmod_products(1, unit.base % unit.m,
                                                       unit.exp, unit.m)]
  /\ UNCHANGED search_vars

SpecPowmod == InitPowmod /\ [][CallPowmod]_vars

(***************************************************************************)
(* Properties of the library functions, against plain arithmetic.          *)
(***************************************************************************)
\* the greatest common divisor, by its definition (0 for a = b = 0)
MathGCD(a, b) ==
  IF a = 0 /\ b = 0 THEN 0
  ELSE CHOOSE g \in 1..(a + b) :
         /\ a % g = 0 /\ b % g = 0
         /\ \A h \in (g + 1)..(a + b) : ~(a % h = 0 /\ b % h = 0)

\* s^z mod p by z multiplications
RECURSIVE NaivePowMod(_, _, _)
NaivePowMod(s, z, p) ==
  IF z = 0 THEN 1 % p ELSE (s * NaivePowMod(s, z - 1, p)) % p

\* C5: the scalar sieve, on the tables of precompute_create for (x, y, z),
\* lets through every pair (A, B) of the tables for which A^x + B^y = C^z
\* for some C.
C5_SieveSound ==
  (unit.fn = "sieve" /\ unit.done) =>
    \A ab \in (0..unit.A_max) \X (0..unit.B_max) :
      LET sum == ab[1] ^ unit.x + ab[2] ^ unit.y
      IN  (\E C \in 0..MaxC : PowCap(C, unit.z, sum) = sum) =>
            ab \in unit.scalar

\* 2^3 + 2^3 = 2^4
C5_Witness ==
  /\ unit.fn = "sieve" /\ unit.done
  /\ unit.x = 3 /\ unit.y = 3 /\ unit.z = 4
  /\ 2 ^ 3 + 2 ^ 3 = 2 ^ 4
  /\ <<2, 2>> \in unit.scalar

\* C6: bit l of sieve_survives_avx2_8(A, B0, data) is set iff B0 + l <= B_max
\* and sieve_survives_scalar(A, B0 + l, data) is true, for every block start.
C6_LaneEquivalence ==
  (unit.fn = "sieve" /\ unit.done) =>
    \A ab \in DOMAIN unit.lanes : \A l \in 0..7 :
      IF ab[2] + l <= unit.B_max
      THEN (BitAt(unit.lanes[ab], l) = 1) <=> (<<ab[1], ab[2] + l>> \in unit.scalar)
      ELSE BitAt(unit.lanes[ab], l) = 0

\* a block that straddles B_max, with a survivor in it and a killed pair
C6_Witness ==
  /\ unit.fn = "sieve" /\ unit.done /\ unit.z >= 3
  /\ \E ab \in DOMAIN unit.lanes :
       /\ ab[2] + 7 > unit.B_max
       /\ unit.lanes[ab] # 0
       /\ \E l \in 0..7 : /\ ab[2] + l <= unit.B_max
                          /\ BitAt(unit.lanes[ab], l) = 0

\* C7: check_beal_hit_gmp reports a hit iff A^x + B^y = r^z for some r in
\* 1..C_max; then C is that r and gcd is gcd(A, gcd(B, r)).
C7_VerifierCorrect ==
  (unit.fn = "check_beal_hit_gmp" /\ unit.done) =>
    LET z     == unit.xyz[3]
        sum   == unit.A ^ unit.xyz[1] + unit.B ^ unit.xyz[2]
        roots == {r \in 1..Min(unit.C_max, sum) :
                    (z = 1 \/ r * r <= sum) /\ PowCap(r, z, sum) = sum}
    IN  /\ unit.res.hit <=> roots # {}
        /\ unit.res.hit =>
             /\ unit.res.C \in roots
             /\ unit.res.gcd = MathGCD(unit.A, MathGCD(unit.B, unit.res.C))
        /\ (unit.A = 2 /\ unit.B = 2 /\ unit.xyz = <<6, 6, 7>> /\ unit.C_max = 1000)
             => unit.res = [hit |-> TRUE, C |-> 2, gcd |-> 2]
        /\ (unit.A = 2 /\ unit.B = 3 /\ unit.xyz = <<3, 3, 3>> /\ unit.C_max = 1000)
             => ~unit.res.hit

C7_Witness ==
  /\ unit.fn = "check_beal_hit_gmp" /\ unit.done
  /\ unit.A = 2 /\ unit.B = 2 /\ unit.xyz = <<6, 6, 7>> /\ unit.C_max = 1000
  /\ unit.res = [hit |-> TRUE, C |-> 2, gcd |-> 2]

\* C8: bit r of the mask compute_residue_mask128 fills for a sieve prime p
\* is set iff r = s^z mod p for some s in 0..p-1, for every r in 0..127; bits
\* 0 and 1 are set; (7, 3) gives {0, 1, 6}, (11, 5) gives {0, 1, 10}, and
\* (71, 3) has bit 70.
C8_ResidueMaskExact ==
  (unit.fn = "compute_residue_mask128" /\ unit.done) =>
    /\ unit.mask[1] \subseteq 0..63 /\ unit.mask[2] \subseteq 0..63
    /\ \A r \in 0..127 :
         get_bit128(unit.mask, r) <=>
           \E s \in 0..(unit.p - 1) : NaivePowMod(s, unit.z, unit.p) = r
    /\ get_bit128(unit.mask, 0) /\ get_bit128(unit.mask, 1)
    /\ (unit.p = 7 /\ unit.z = 3) => unit.mask = <<{0, 1, 6}, {}>>
    /\ (unit.p = 11 /\ unit.z = 5) => unit.mask = <<{0, 1, 10}, {}>>
    /\ (unit.p = 71 /\ unit.z = 3) => get_bit128(unit.mask, 70)

\* the upper word carries bit 70 of the mask of (71, 3)
C8_Witness ==
  /\ unit.fn = "compute_residue_mask128" /\ unit.done
  /\ unit.p = 71 /\ unit.z = 3
  /\ get_bit128(unit.mask, 70) /\ 6 \in unit.mask[2]

\* C15: precompute_create, whichever of its allocations fails, returns NULL
\* with no block left allocated; the handle it returns when none fails has
\* every row allocated.
C15_AllOrNothing ==
  (unit.fn = "precompute_create" /\ unit.done /\ ~unit.freed) =>
    /\ unit.fail # NoFailure =>
         unit.heap.ret = "NULL" /\ unit.heap.live = {}
    /\ unit.heap.ret = "handle" =>
         unit.heap.null_rows = {} /\ unit.heap.live = Mallocs(unit.A_max)

\* C15 for the two allocations whose failure is handled in full, and for the
\* call where none fails; precompute_free leaves no block of a handle
C15_HandleAndFirstArray ==
  (unit.fn = "precompute_create" /\ unit.done) =>
    /\ unit.fail \in {<<"data", 0>>, <<"ax_mod", 0>>} =>
         unit.heap.ret = "NULL" /\ unit.heap.live = {}
    /\ (unit.fail = NoFailure /\ ~unit.freed) =>
         /\ unit.heap.ret = "handle" /\ unit.heap.null_rows = {}
         /\ unit.heap.live = Mallocs(unit.A_max)
    /\ unit.freed => unit.heap.live = {}

\* Euclid's algorithm
RECURSIVE Euclid(_, _)
Euclid(a, b) == IF b = 0 THEN a ELSE Euclid(b, a % b)

\* the number of binary digits of n
RECURSIVE BitLen(_)
BitLen(n) == IF n = 0 THEN 0 ELSE 1 + BitLen(n \div 2)

\* C17: gcd64(a, b) ends after at most BitLen(a) + BitLen(b) rounds of its
\* loop and returns the greatest common divisor: gcd64(0, n) = gcd64(n, 0) =
\* n, gcd64(0, 0) = 0, and otherwise the value of Euclid's algorithm, which
\* divides a and b and is a multiple of each of their common divisors.
C17_GcdCorrect ==
  (unit.fn = "gcd64" /\ unit.done) =>
    /\ unit.res = Euclid(unit.a, unit.b)
    /\ unit.a = 0 => unit.res = unit.b
    /\ unit.b = 0 => unit.res = unit.a
    /\ unit.rounds <= BitLen(unit.a) + BitLen(unit.b)
    /\ (unit.a > 0 /\ unit.b > 0) =>
         /\ unit.res > 0 /\ unit.rounds > 0
         /\ unit.a % unit.res = 0 /\ unit.b % unit.res = 0
         /\ \A g \in 1..Min(unit.a, unit.b) :
              (unit.a % g = 0 /\ unit.b % g = 0) => unit.res % g = 0
    /\ (<<unit.a, unit.b>> = <<12, 8>>) => unit.res = 4
    /\ (<<unit.a, unit.b>> = <<17, 13>>) => unit.res = 1
    /\ (<<unit.a, unit.b>> = <<100, 25>>) => unit.res = 25

\* both arguments even, several rounds of the loop
C17_Witness ==
  /\ unit.fn = "gcd64" /\ unit.done
  /\ unit.a = 36 /\ unit.b = 24 /\ unit.res = 12 /\ unit.rounds > 1

\* C18: powmod(base, exp, m) is base^exp mod m for m >= 2, and no product it
\* forms exceeds (m - 1)^2; powmod(2, 10, 1000) = 24, powmod(3, 4, 7) = 4,
\* powmod(5, 3, 13) = 8.
C18_PowmodCorrect ==
  (unit.fn = "powmod" /\ unit.done) =>
    /\ unit.res = NaivePowMod(unit.base, unit.exp, unit.m)
    /\ unit.res < unit.m
    /\ \A q \in unit.products : q <= (unit.m - 1) * (unit.m - 1)
    /\ (unit.base = 2 /\ unit.exp = 10 /\ unit.m = 1000) => unit.res = 24
    /\ (unit.base = 3 /\ unit.exp = 4 /\ unit.m = 7) => unit.res = 4
    /\ (unit.base = 5 /\ unit.exp = 3 /\ unit.m = 13) => unit.res = 8

\* a base above the modulus, an exponent with several set bits
C18_Witness ==
  /\ unit.fn = "powmod" /\ unit.done
  /\ unit.base = 12 /\ unit.exp = 7 /\ unit.m = 5
  /\ unit.res = 3 /\ 16 \in unit.products


\* the z-th power residues modulo p
PowerResidues(p, z) == {NaivePowMod(s, z, p) : s \in 0..(p - 1)}

\* C20: on the tables of precompute_create(x, y, z, A_max, B_max), for every
\* A in 0..A_max and B in 0..B_max, sieve_survives_scalar(A, B, data) is true
\* iff for every sieve prime p, (A^x + B^y) mod p is a z-th power residue
\* mod p; the table entries are A^x mod p and B^y mod p exactly, below p, and
\* the conditional subtraction gives their sum mod p, a bit index below p.
C20_DecisionRule ==
  (unit.fn = "sieve" /\ unit.done) =>
    LET d    == precompute_tables(unit.x, unit.y, unit.z, unit.A_max, unit.B_max)
        tab  == (0..unit.A_max) \X (0..unit.B_max)
        S(ab) == ab[1] ^ unit.x + ab[2] ^ unit.y
    IN  /\ \A i \in PrimeIdx :
             \A R \in {PowerResidues(SIEVE_PRIMES[i], unit.z)} :
               LET p == SIEVE_PRIMES[i]
               IN  /\ \A A \in 0..unit.A_max :
                        /\ d.ax_mod[A][i] = NaivePowMod(A, unit.x, p)
                        /\ d.ax_mod[A][i] < p
                   /\ \A B \in 0..unit.B_max :
                        /\ d.by_mod[i][B] = NaivePowMod(B, unit.y, p)
                        /\ d.by_mod[i][B] < p
                   /\ \A ab \in tab :
                        LET sum == AddMod(d.ax_mod[ab[1]][i], d.by_mod[i][ab[2]], p)
                        IN  sum = S(ab) % p /\ sum < p
                   \* true only if every prime admits the pair
                   /\ \A ab \in unit.scalar : (S(ab) % p) \in R
        \* false only if some prime rules the pair out
        /\ \A ab \in tab \ unit.scalar :
             \E i \in PrimeIdx :
               (S(ab) % SIEVE_PRIMES[i]) \notin PowerResidues(SIEVE_PRIMES[i], unit.z)

\* 1^1 + 2^3 = 3^2: a pair let through whose table entries at some prime
\* add up past the prime, and a pair ruled out
C20_Witness ==
  /\ unit.fn = "sieve" /\ unit.done
  /\ unit.x = 1 /\ unit.y = 3 /\ unit.z = 2
  /\ LET d == precompute_tables(unit.x, unit.y, unit.z, unit.A_max, unit.B_max)
     IN  /\ \E ab \in unit.scalar : \E i \in PrimeIdx :
               d.ax_mod[ab[1]][i] + d.by_mod[i][ab[2]] >= SIEVE_PRIMES[i]
         /\ \E ab \in (0..unit.A_max) \X (0..unit.B_max) : ab \notin unit.scalar


\* the hits search_parallel holds: the shared list and the workers' buffers
RecordedHits ==
  {results.hits[k] : k \in 1..Len(results.hits)} \cup
  UNION {{wk[w].local_hits[k] : k \in 1..Len(wk[w].local_hits)} : w \in Workers}

\* C25: every hit search_parallel records has gcd(A, B) = 1 and so a gcd
\* field of 1; at completion power_hits = primitive_hits.
C25_HitsPrimitive ==
  /\ \A h \in RecordedHits : MathGCD(h.A, h.B) = 1 /\ h.gcd = 1
  /\ SearchReturned => results.power_hits = results.primitive_hits

\* 2 + 2 = 4 was skipped for its gcd, and other hits were recorded
C25_Witness ==
  /\ SearchCompleted /\ results.power_hits > 0
  /\ params.x = 1 /\ params.y = 1 /\ params.z = 1
  /\ check_beal_hit_gmp(2, 2, <<1, 1, 1>>, params.C_max).hit
  /\ pairs[<<2, 2>>].gcd = 1 /\ pairs[<<2, 2>>].verify = 0


\* global_gcd_skips + global_mod_skips + global_exact_checks
SkipsAndChecks == glob.gcd_skips + glob.mod_skips + glob.exact_checks

\* worker w has added its a_tested for a row and not yet its a_exact
MidUpdate(w) == wk[w].pc \in {"add_gcd", "add_mod", "add_exact"}

\* C26: the four atomic counters never decrease; in every state the three
\* class counters add up to at most global_tested, which is at most
\* expected_pairs; they add up to global_tested exactly whenever no worker
\* is between its first and its last fetch_add for a row.
C26_AtomicCounters ==
  /\ [](/\ SkipsAndChecks <= glob.tested
        /\ glob.tested <= expected_pairs(params)
        /\ (\A w \in Workers : ~MidUpdate(w)) => SkipsAndChecks = glob.tested)
  /\ [][/\ glob'.tested >= glob.tested
        /\ glob'.gcd_skips >= glob.gcd_skips
        /\ glob'.mod_skips >= glob.mod_skips
        /\ glob'.exact_checks >= glob.exact_checks]_vars

\* two workers in the middle of their updates, after an earlier row
C26_Witness ==
  /\ mpc = "parallel" /\ glob.tested > 0
  /\ wk[1].pc = "add_mod" /\ wk[2].pc = "add_exact"
  /\ SkipsAndChecks < glob.tested


C27_ConsistentUnlessClamped ==
  \A k \in 1..Len(Checkpoints) :
    LET rec == Checkpoints[k]
    IN  /\ rec.pairs_completed <= rec.pairs_expected
        /\ \/ rec.gcd_skips + rec.mod_skips + rec.exact_checks = rec.pairs_completed
           \/ rec.exact_checks = 0 /\ rec.gcd_skips + rec.mod_skips > rec.pairs_completed


\* main has returned 0
ExitedZero == mpc = "exited" /\ exit_code = 0

\* C28: main returns 0 only if search_parallel processed every pair of the
\* range and emitted COMPLETE with primitive_hits = 0; a run whose
\* precompute failed does not return 0.
C28_ExitZeroMeansClear ==
  ExitedZero =>
    /\ alloc = "none"
    /\ \A pr \in PairDom : InRange(pr, params) => pairs[pr].tested = 1
    /\ results.primitive_hits = 0
    /\ \E k \in LogEvents("COMPLETE") : log[k].primitive_counterexamples = 0

\* main returns 0 after a failed precompute, or after a full sweep that
\* found no primitive hit
C28_ExitZeroCases ==
  ExitedZero =>
    \/ alloc # "none" /\ results = results_init /\ log = <<>>
    \/ /\ alloc = "none"
       /\ \A pr \in PairDom : InRange(pr, params) => pairs[pr].tested = 1
       /\ results.primitive_hits = 0
       /\ log_ok => \E k \in LogEvents("COMPLETE") :
                      log[k].primitive_counterexamples = 0


\* the records of the log that carry a run_id
RunRecords == {k \in DOMAIN log : log[k].event \in {"START", "CHECKPOINT", "COMPLETE"}}

\* C29: the START, CHECKPOINT and COMPLETE records of one invocation carry
\* the same run_id.
C29_SameRunId ==
  \A j, k \in RunRecords : log[j].run_id = log[k].run_id

\* the CHECKPOINT and COMPLETE records carry the run_id search_parallel
\* sampled, and the run_id of START is a reading of the clock no earlier
C29_RunIdAfterStart ==
  \A k \in RunRecords :
    IF log[k].event = "START" THEN log[k].run_id >= run_id
                              ELSE log[k].run_id = run_id

\* C30: workers_used in COMPLETE equals cpu_count in START, and both equal
\* the number of threads search_parallel ran with.
C30_WorkersReported ==
  /\ \A k \in LogEvents("START") : log[k].cpu_count = num_threads
  /\ \A k \in LogEvents("COMPLETE") :
       /\ log[k].workers_used = num_threads
       /\ \A j \in LogEvents("START") :
            log[k].workers_used = log[j].cpu_count

\* cpu_count in START is the number of threads used; workers_used in
\* COMPLETE is the requested num_threads, or 1 when none was requested
C30_WorkersAsRequested ==
  /\ \A k \in LogEvents("START") : log[k].cpu_count = num_threads
  /\ \A k \in LogEvents("COMPLETE") :
       log[k].workers_used =
         IF params.num_threads > 0 THEN params.num_threads ELSE 1

====
